---- MODULE Spec2Model ----
(***************************************************************************)
(* Model of the DynamoDB table import Lambda (src/src/handler.mjs).        *)
(*                                                                         *)
(* One invocation of `handler` is a process whose position is `pc`; every  *)
(* `await` of the source is a step.  The destination store (one table) and *)
(* the blob store are the environment: each call draws its outcome from    *)
(* the outcomes the service can give in the table's current state.         *)
(***************************************************************************)
EXTENDS Integers, Sequences, FiniteSets, TLC

(* ------------------------------ bounds --------------------------------- *)
\* largest number of records in an export artifact
MaxItems == 3
\* largest number of iterations of the batch loop that is followed
\* (the loop does not end when BATCH_SIZE is zero or negative)
MaxLoop == 5

(* ------------------- JavaScript values used by the code ----------------- *)
\* an absent (undefined) optional value, and a present one
Undefined == <<>>
Some(v) == <<v>>

\* a JavaScript number: NaN, or an integer
NaN == [nan |-> TRUE, v |-> 0]
Num(n) == [nan |-> FALSE, v |-> n]

DigitChars == {"0", "1", "2", "3", "4", "5", "6", "7", "8", "9"}
DigitVal(c) ==
  CASE c = "0" -> 0 [] c = "1" -> 1 [] c = "2" -> 2 [] c = "3" -> 3
    [] c = "4" -> 4 [] c = "5" -> 5 [] c = "6" -> 6 [] c = "7" -> 7
    [] c = "8" -> 8 [] c = "9" -> 9

RECURSIVE DigitPrefixLen(_)
\* number of leading decimal digits of a string (a sequence of characters)
DigitPrefixLen(s) ==
  IF s = <<>> \/ Head(s) \notin DigitChars THEN 0
  ELSE 1 + DigitPrefixLen(Tail(s))

RECURSIVE DigitsValue(_, _)
\* value of the first n characters of s, all decimal digits
DigitsValue(s, n) ==
  IF n = 0 THEN 0
  ELSE 10 * DigitsValue(s, n - 1) + DigitVal(s[n])

\* parseInt(s): optional sign, then the longest prefix of digits; NaN when
\* there is no digit
ParseInt(s) ==
  LET signed == s # <<>> /\ Head(s) \in {"-", "+"}
      body == IF signed THEN Tail(s) ELSE s
      n == DigitPrefixLen(body)
      mag == DigitsValue(body, n)
  IN IF n = 0 THEN NaN
     ELSE IF signed /\ Head(s) = "-" THEN Num(0 - mag) ELSE Num(mag)

\* a + b on JavaScript numbers
JsAdd(a, b) == IF a.nan \/ b.nan THEN NaN ELSE Num(a.v + b.v)
\* a < n, n an integer; false when a is NaN
JsLess(a, n) == ~a.nan /\ a.v < n

\* the relative index of Array.prototype.slice: NaN is 0, a negative index
\* counts from the end, the result is clamped to 0..len
SliceIndex(k, len) ==
  IF k.nan THEN 0
  ELSE IF k.v < 0 THEN (IF len + k.v < 0 THEN 0 ELSE len + k.v)
  ELSE IF k.v > len THEN len ELSE k.v

\* a slice that always starts at the first item
SliceFromStart(items, start, end) ==
  LET to == SliceIndex(end, Len(items))
  IN IF to > 0 THEN SubSeq(items, 1, to) ELSE <<>>

\* items.slice(start, end)
Slice(items, start, end) ==
  LET from == SliceIndex(start, Len(items))
      to == SliceIndex(end, Len(items))
  IN IF to > from THEN SubSeq(items, from + 1, to) ELSE <<>>

(* --------------------------- configuration ------------------------------ *)
\* process.env: "" stands for an unset (or empty) variable; BATCH_SIZE is
\* kept as its characters because it is parsed. OVERWRITE_EXISTING is left
\* unset: overwriting is asked for by the event
BatchSizeTexts ==
  { <<>>, <<"0">>, <<"1">>, <<"2">>, <<"-", "1">>, <<"x">> }

Envs ==
  [ SOURCE_KEY : {"", "export.json"},
    TARGET_TABLE_NAME : {""},
    CREATE_TABLE : {"", "true"},
    OVERWRITE_EXISTING : {""},
    BATCH_SIZE : BatchSizeTexts ]

\* const CONFIG = { ... }
LoadConfig(env) ==
  [ SOURCE_KEY |-> env.SOURCE_KEY,
    TARGET_TABLE_NAME |-> env.TARGET_TABLE_NAME,
    CREATE_TABLE |-> (env.CREATE_TABLE = "true"),
    OVERWRITE_EXISTING |-> (env.OVERWRITE_EXISTING = "true"),
    BATCH_SIZE |->
      ParseInt(IF env.BATCH_SIZE # <<>> THEN env.BATCH_SIZE ELSE <<"2", "5">>) ]

\* the invocation event; a string option that is absent is ""
Events ==
  [ sourceKey : {"", "export.json"},
    targetTableName : {"", "Users_Restored"},
    createTable : {Undefined, Some(TRUE), Some(FALSE)},
    overwriteExisting : {Undefined, Some(TRUE), Some(FALSE)} ]

NoEvent ==
  [ sourceKey |-> "", targetTableName |-> "",
    createTable |-> Undefined, overwriteExisting |-> Undefined ]

\* a || b on strings
OrElse(a, b) == IF a # "" THEN a ELSE b
\* a !== undefined ? a : b
IfDefined(a, b) == IF a # Undefined THEN a[1] ELSE b

(* ----------------------------- artifacts -------------------------------- *)
\* ProvisionedThroughput of an index or a table: undefined, or capacities
NoThroughput == [def |-> FALSE, rcu |-> 0, wcu |-> 0]
Throughput(r, w) == [def |-> TRUE, rcu |-> r, wcu |-> w]
SourceThroughputs == {NoThroughput, Throughput(0, 0), Throughput(3, 4)}

\* schema.billingMode: "" is an absent billing mode
BillingModes == {"", "PAY_PER_REQUEST", "PROVISIONED"}

IndexDefs == [IndexName : {"ix"}, ProvisionedThroughput : SourceThroughputs]

SeqsUpTo(S, n) == UNION { [1..k -> S] : k \in 0..n }

\* largest number of secondary indexes of one kind in a schema
MaxIndexes == 1

Schemas ==
  [ tableName : {"Users"},
    billingMode : BillingModes,
    globalSecondaryIndexes : SeqsUpTo(IndexDefs, MaxIndexes),
    localSecondaryIndexes : SeqsUpTo(IndexDefs, MaxIndexes),
    streamSpecification : BOOLEAN ]

\* the schema of the artifacts of a whole run: an on-demand table whose
\* export lists one global index with zero capacities
RunSchema ==
  [ tableName |-> "Users",
    billingMode |-> "PAY_PER_REQUEST",
    globalSecondaryIndexes |-> << [IndexName |-> "ix", ProvisionedThroughput |-> Throughput(0, 0)] >>,
    localSecondaryIndexes |-> <<>>,
    streamSpecification |-> FALSE ]

\* items 1..n of an export, in source order
ItemsOf(n) == [k \in 1..n |-> k]

\* a parsed export file: which of the three sections are present (truthy),
\* the schema and the items
Artifacts ==
  [ isNull : {FALSE},
    exportMetadata : BOOLEAN,
    hasSchema : BOOLEAN,
    hasItems : BOOLEAN,
    tableSchema : {RunSchema},
    items : { ItemsOf(n) : n \in 0..MaxItems } ]

NullArtifact ==
  [ isNull |-> TRUE, exportMetadata |-> FALSE, hasSchema |-> FALSE,
    hasItems |-> FALSE, tableSchema |-> RunSchema, items |-> <<>> ]

\* a section that is absent carries nothing
WellFormed(a) ==
  /\ (~a.hasItems => a.items = <<>>)


(* ------------------------------- state ---------------------------------- *)
VARIABLES
  CONFIG,             \* the module-level configuration
  tableStatus,        \* the destination table: ABSENT, CREATING, ACTIVE, DELETING
  pc,                 \* position of the invocation of handler
  event,              \* the event handler was invoked with
  sourceKey,          \* handler's locals
  targetTableName,
  createTable,
  overwriteExisting,
  exportData,
  tableName,
  tableExists,        \* result of the existence check, once made
  attempt,            \* loop variable i of the two polling loops (0 outside
                      \* them, maxAttempts after a loop ran out)
  i,                  \* loop variable i of importItems (a JavaScript number)
  batch,              \* the records of the current batch still to be written
  results,            \* results of importItems
  createParams,       \* parameters of the CreateTableCommand that was sent
  issued,             \* the kinds of external calls sent so far
  putLog,             \* the PutItemCommands sent so far, in order
  groups,             \* number of batches started so far
  delays,             \* number of pacing delays taken so far
  responses,          \* the responses handler has returned
  order,              \* the calls to the destination store and what they
                      \* showed, in order (repeated polls and puts once)
  hit,                \* the state the table was in when delete and create
                      \* were sent, and whether a creation poll failed
  targets,            \* the table names the calls of the run have named
  paceLog,            \* for each pacing delay, the number of writes before it
  runs,               \* two invocations running at once: each one's position
  tables              \* and the destination tables they work on, by name

config == <<CONFIG, runs, tables>>
locals == <<event, sourceKey, targetTableName, createTable, overwriteExisting>>
loaded == <<exportData, tableName>>
importer == <<i, batch, results, putLog, groups, delays, paceLog>>
history == <<order, hit, targets>>
vars == <<CONFIG, tableStatus, pc, event, sourceKey, targetTableName,
          createTable, overwriteExisting, exportData, tableName, tableExists,
          attempt, i, batch, results, createParams, issued, putLog, groups,
          delays, responses, order, hit, targets, paceLog, runs, tables>>

\* default value of maxAttempts in both polling loops
MaxAttempts == 30

TableStates == {"ABSENT", "CREATING", "ACTIVE", "DELETING"}

NoResults == [successCount |-> 0, failedCount |-> 0, failedItems |-> <<>>]

NoHit == [deleteOn |-> "", createOn |-> "", pollFailed |-> FALSE]

\* the invocations that run at once, and the names of destination tables
Inst == {1, 2}
TableNames == {"Users", "Users_Restored"}

\* an invocation that has found its table name, before its Step 1
NewRun(name) ==
  [ pc |-> "check", name |-> name, attempt |-> 0, left |-> MaxItems,
    imported |-> 0, code |-> 0, hit |-> "" ]

NoTable == [status |-> "ABSENT", items |-> {}]

NoParams ==
  [ TableName |-> "", BillingMode |-> "",
    GlobalSecondaryIndexes |-> <<>>, LocalSecondaryIndexes |-> <<>>,
    StreamSpecification |-> FALSE, ProvisionedThroughput |-> NoThroughput ]

\* the state of handler before it is invoked
InitHandler ==
  /\ CONFIG \in { LoadConfig(env) : env \in Envs }
  /\ tableStatus \in TableStates
  /\ pc = "idle"
  /\ event = NoEvent
  /\ sourceKey = ""
  /\ targetTableName = ""
  /\ createTable = FALSE
  /\ overwriteExisting = FALSE
  /\ exportData = NullArtifact
  /\ tableName = ""
  /\ tableExists = Undefined
  /\ attempt = 0
  /\ i = Num(0)
  /\ batch = <<>>
  /\ results = NoResults
  /\ createParams = NoParams
  /\ issued = {}
  /\ putLog = <<>>
  /\ groups = 0
  /\ delays = 0
  /\ responses = <<>>
  /\ order = <<>>
  /\ hit = NoHit
  /\ targets = {}
  /\ paceLog = <<>>

Init ==
  /\ InitHandler
  /\ runs = [n \in Inst |-> NewRun("Users")]
  /\ tables = [k \in TableNames |-> NoTable]

(* ------------------------------ responses ------------------------------- *)
ErrorResponse(error) ==
  [ statusCode |-> 500,
    body |-> [message |-> "Import failed", error |-> error] ]

SuccessResponse(name, importResults, key) ==
  [ statusCode |-> 200,
    body |-> [ message |-> "Import completed successfully",
               tableName |-> name,
               importedItems |-> importResults.successCount,
               failedItems |-> importResults.failedCount,
               sourceFile |-> key ] ]

\* an error that leaves handler without a response
CatchRethrows(error) ==
  /\ pc' = "done"
  /\ UNCHANGED responses

\* the catch block of handler: the run ends with an error response
Catch(error) ==
  /\ responses' = Append(responses, ErrorResponse(error))
  /\ pc' = "done"

(* ------------------------- handler, first part -------------------------- *)
\* a source key check that never fires
SourceKeyNeverMissing(key) == FALSE

\* if (!sourceKey)
SourceKeyMissing(key) == key = ""

\* handler is invoked: the locals are set from the event and CONFIG, and
\* the source key is checked
Invoke(ev) ==
  /\ pc = "idle"
  /\ event' = ev
  /\ sourceKey' = OrElse(ev.sourceKey, CONFIG.SOURCE_KEY)
  /\ targetTableName' = OrElse(ev.targetTableName, CONFIG.TARGET_TABLE_NAME)
  /\ createTable' = IfDefined(ev.createTable, CONFIG.CREATE_TABLE)
  /\ overwriteExisting' = IfDefined(ev.overwriteExisting, CONFIG.OVERWRITE_EXISTING)
  /\ IF SourceKeyMissing(sourceKey')
       THEN Catch("MissingSourceKey")
       ELSE pc' = "download" /\ UNCHANGED responses
  /\ UNCHANGED <<config, tableStatus, loaded, tableExists, attempt, importer,
                 createParams, issued, history>>

\* a validation that does not look at the items
ValidExportNoItems(data) == data.exportMetadata /\ data.hasSchema

\* the validation of the export data structure
ValidExport(data) == data.exportMetadata /\ data.hasSchema /\ data.hasItems

\* downloadFromS3 returns or throws; then the export is validated and the
\* table name chosen
DownloadFromS3 ==
  /\ pc = "download"
  /\ issued' = issued \cup {"GetObject"}
  /\ \/ /\ Catch("DownloadFailed")
        /\ UNCHANGED loaded
     \/ \E data \in Artifacts \cup {NullArtifact} :
          /\ WellFormed(data)
          /\ exportData' = data
          /\ IF data.isNull
               THEN Catch("TypeError") /\ UNCHANGED tableName
               ELSE IF ~ValidExport(data)
                 THEN Catch("MalformedExport") /\ UNCHANGED tableName
                 ELSE /\ tableName' = OrElse(targetTableName, data.tableSchema.tableName)
                      /\ pc' = "checkExists"
                      /\ UNCHANGED responses
  /\ UNCHANGED <<config, tableStatus, locals, tableExists, attempt, importer,
                 createParams, history>>

(* --------------------------- destination store -------------------------- *)
\* what DescribeTable can answer for a table in this state
DescribeOutcomes(status) ==
  (IF status = "ABSENT" THEN {"ResourceNotFoundException"} ELSE {status})
    \cup {"Error"}

\* the observations that are noted once when they repeat
Repeating == {"dpoll:exists", "cpoll:pending", "put"}

\* a call and what it showed is noted
Observe(o) ==
  order' = (IF order # <<>> /\ order[Len(order)] = o /\ o \in Repeating
              THEN order
              ELSE Append(order, o))

\* a call names a table
Target(name) == targets' = targets \cup {name}

\* a transition of the table completes
StoreProgress ==
  /\ tableStatus \in {"CREATING", "DELETING"}
  /\ tableStatus' = (IF tableStatus = "CREATING" THEN "ACTIVE" ELSE "ABSENT")
  /\ UNCHANGED <<config, pc, locals, loaded, tableExists, attempt, importer,
                 createParams, issued, responses, history>>

(* ------------------------ handler, table lifecycle ---------------------- *)
\* a Step 4 that creates the table whatever createTable is
CreateStepAlways(create) == "create"

\* Step 4 of handler: create the table or refuse
CreateStep(create) == IF create THEN "create" ELSE "TableMissingNoCreate"

\* a lifecycle in which createTable lets an existing table through
LifecycleStepCreateWins(exists, overwrite, create) ==
  IF exists /\ ~overwrite /\ ~create THEN "TableExistsNoOverwrite"
  ELSE IF exists /\ overwrite THEN "delete"
  ELSE IF create THEN "create" ELSE "TableMissingNoCreate"

\* Steps 2 to 4 of handler after the existence check: the next position,
\* or the error thrown
LifecycleStep(exists, overwrite, create) ==
  IF exists /\ ~overwrite THEN "TableExistsNoOverwrite"
  ELSE IF exists /\ overwrite THEN "delete"
  ELSE CreateStep(create)

Positions == {"delete", "create"}

\* go to a position, or throw the error
Goto(step) ==
  IF step \in Positions
    THEN pc' = step /\ UNCHANGED responses
    ELSE Catch(step)

\* an existence query that takes every failure for "no such table"
ExistsResultSwallows(r) ==
  IF r \in {"ResourceNotFoundException", "Error"} THEN Some(FALSE) ELSE Some(TRUE)

\* the answer of checkTableExists to what DescribeTable gave: true, false,
\* or nothing when the error is thrown on
ExistsResult(r) ==
  IF r = "ResourceNotFoundException" THEN Some(FALSE)
  ELSE IF r = "Error" THEN Undefined
  ELSE Some(TRUE)

\* what an existence query showed
Seen(r) ==
  IF r = "ResourceNotFoundException" THEN "absent"
  ELSE IF r = "Error" THEN "error"
  ELSE "exists"

\* checkTableExists in Step 2, and the decisions that follow it
CheckTableExists ==
  /\ pc = "checkExists"
  /\ issued' = issued \cup {"DescribeTable"}
  /\ Target(tableName)
  /\ \E r \in DescribeOutcomes(tableStatus) :
       /\ Observe(IF Seen(r) = "absent" THEN "check:absent"
                  ELSE IF Seen(r) = "error" THEN "check:error"
                  ELSE "check:exists")
       /\ IF ExistsResult(r) = Undefined
            THEN Catch("LifecycleQueryFailed") /\ UNCHANGED tableExists
            ELSE /\ tableExists' = ExistsResult(r)
                 /\ Goto(LifecycleStep(tableExists'[1], overwriteExisting, createTable))
  /\ UNCHANGED <<config, tableStatus, locals, loaded, attempt, importer,
                 createParams, hit>>

\* a polling loop that makes one poll more
AttemptsLeftOneMore(n) == n <= MaxAttempts

\* i < maxAttempts, the test of both polling loops
AttemptsLeft(n) == n < MaxAttempts

\* deleteTable
DeleteTable ==
  /\ pc = "delete"
  /\ issued' = issued \cup {"DeleteTable"}
  /\ Target(tableName)
  /\ Observe("delete")
  /\ hit' = [hit EXCEPT !.deleteOn = tableStatus]
  /\ \/ /\ tableStatus \in {"ACTIVE", "CREATING"}
        /\ tableStatus' = "DELETING"
        /\ pc' = "waitDelete"
        /\ attempt' = 0
        /\ UNCHANGED responses
     \/ /\ Catch("DeleteFailed")
        /\ UNCHANGED <<tableStatus, attempt>>
  /\ UNCHANGED <<config, locals, loaded, tableExists, importer, createParams>>

\* a deletion wait that goes on to Step 4 when its attempts run out
WaitForTableDeletionContinues ==
  /\ pc = "waitDelete"
  /\ issued' = issued \cup {"DescribeTable"}
  /\ Target(tableName)
  /\ \E r \in DescribeOutcomes(tableStatus) :
       /\ Observe(IF Seen(r) = "absent" THEN "dpoll:absent"
                  ELSE IF Seen(r) = "error" THEN "dpoll:error"
                  ELSE "dpoll:exists")
       /\ IF ExistsResult(r) = Undefined
            THEN Catch("LifecycleQueryFailed") /\ attempt' = 0
            ELSE IF ExistsResult(r) = Some(FALSE)
              THEN Goto(CreateStep(createTable)) /\ attempt' = 0
              ELSE IF AttemptsLeft(attempt + 1)
                THEN attempt' = attempt + 1 /\ UNCHANGED <<pc, responses>>
                ELSE Goto(CreateStep(createTable)) /\ attempt' = 0
  /\ UNCHANGED <<config, tableStatus, locals, loaded, tableExists, importer,
                 createParams, hit>>

\* one iteration of waitForTableDeletion: the poll and the sleep after it
WaitForTableDeletion ==
  /\ pc = "waitDelete"
  /\ issued' = issued \cup {"DescribeTable"}
  /\ Target(tableName)
  /\ \E r \in DescribeOutcomes(tableStatus) :
       /\ Observe(IF Seen(r) = "absent" THEN "dpoll:absent"
                  ELSE IF Seen(r) = "error" THEN "dpoll:error"
                  ELSE "dpoll:exists")
       /\ IF ExistsResult(r) = Undefined
            THEN Catch("LifecycleQueryFailed") /\ attempt' = 0
            ELSE IF ExistsResult(r) = Some(FALSE)
              THEN Goto(CreateStep(createTable)) /\ attempt' = 0
              ELSE /\ attempt' = attempt + 1
                   /\ IF AttemptsLeft(attempt')
                        THEN UNCHANGED <<pc, responses>>
                        ELSE Catch("DeleteTimeout")
  /\ UNCHANGED <<config, tableStatus, locals, loaded, tableExists, importer,
                 createParams, hit>>


(* --------------------------- schema translation ------------------------- *)
\* capacity units given to a provisioned table
MinCapacity == 5

\* a global index that keeps its capacities whatever the billing mode is
GsiThroughputCopied(billingMode, gsi) == gsi.ProvisionedThroughput

\* ProvisionedThroughput of a translated global index
GsiThroughput(billingMode, gsi) ==
  IF billingMode = "PROVISIONED" THEN gsi.ProvisionedThroughput ELSE NoThroughput

\* a translated global index
TranslateGsi(billingMode, gsi) ==
  [ IndexName |-> gsi.IndexName,
    ProvisionedThroughput |-> GsiThroughput(billingMode, gsi) ]

\* a translated local index: name, keys and projection only
TranslateLsi(lsi) ==
  [ IndexName |-> lsi.IndexName, ProvisionedThroughput |-> NoThroughput ]

\* ProvisionedThroughput of the table
TableThroughput(billingMode) ==
  IF billingMode = "PROVISIONED"
    THEN Throughput(MinCapacity, MinCapacity)
    ELSE NoThroughput

\* schema.billingMode || 'PAY_PER_REQUEST'
EffectiveBillingMode(schema) == OrElse(schema.billingMode, "PAY_PER_REQUEST")

\* parameters that name the table after the schema, whatever the target
CreateTableParamsSchemaName(name, schema) ==
  LET billing == EffectiveBillingMode(schema)
  IN [ TableName |-> schema.tableName,
       BillingMode |-> billing,
       GlobalSecondaryIndexes |->
         [k \in DOMAIN schema.globalSecondaryIndexes |->
            TranslateGsi(billing, schema.globalSecondaryIndexes[k])],
       LocalSecondaryIndexes |->
         [k \in DOMAIN schema.localSecondaryIndexes |->
            TranslateLsi(schema.localSecondaryIndexes[k])],
       StreamSpecification |-> schema.streamSpecification,
       ProvisionedThroughput |-> TableThroughput(billing) ]

\* the params object createTableFromSchema builds (key schema, attribute
\* definitions and projections are copied as they are and left out)
CreateTableParams(name, schema) ==
  LET billing == EffectiveBillingMode(schema)
  IN [ TableName |-> name,
       BillingMode |-> billing,
       GlobalSecondaryIndexes |->
         [k \in DOMAIN schema.globalSecondaryIndexes |->
            TranslateGsi(billing, schema.globalSecondaryIndexes[k])],
       LocalSecondaryIndexes |->
         [k \in DOMAIN schema.localSecondaryIndexes |->
            TranslateLsi(schema.localSecondaryIndexes[k])],
       StreamSpecification |-> schema.streamSpecification,
       ProvisionedThroughput |-> TableThroughput(billing) ]

\* createTableFromSchema
CreateTableFromSchema ==
  /\ pc = "create"
  /\ createParams' = CreateTableParams(tableName, exportData.tableSchema)
  /\ issued' = issued \cup {"CreateTable"}
  /\ Target(createParams'.TableName)
  /\ Observe("create")
  /\ hit' = [hit EXCEPT !.createOn = tableStatus]
  /\ \/ /\ tableStatus = "ABSENT"
        /\ tableStatus' = "CREATING"
        /\ pc' = "waitCreate"
        /\ attempt' = 0
        /\ UNCHANGED responses
     \/ /\ Catch("CreateFailed")
        /\ UNCHANGED <<tableStatus, attempt>>
  /\ UNCHANGED <<config, locals, loaded, tableExists, importer>>

\* a creation wait that ends on any answered poll
TableIsActiveAnyStatus(r) == r # "Error"

\* response.Table.TableStatus === 'ACTIVE' (an error has no status)
TableIsActive(r) == r = "ACTIVE"

\* one iteration of waitForTableCreation: the poll and the sleep after it;
\* when the table is active handler goes on to importItems
WaitForTableCreation ==
  /\ pc = "waitCreate"
  /\ issued' = issued \cup {"DescribeTable"}
  /\ Target(tableName)
  /\ \E r \in DescribeOutcomes(tableStatus) :
       /\ Observe(IF r = "ACTIVE" THEN "cpoll:active" ELSE "cpoll:pending")
       /\ hit' = [hit EXCEPT !.pollFailed = @ \/ r = "Error"]
       /\ IF TableIsActive(r)
            THEN /\ pc' = "loop"
                 /\ results' = NoResults
                 /\ i' = Num(0)
                 /\ attempt' = 0
                 /\ UNCHANGED responses
            ELSE /\ attempt' = attempt + 1
                 /\ IF AttemptsLeft(attempt')
                      THEN UNCHANGED <<pc, responses>>
                      ELSE Catch("CreateTimeout")
                 /\ UNCHANGED <<results, i>>
  /\ UNCHANGED <<config, tableStatus, locals, loaded, tableExists, batch,
                 putLog, groups, delays, paceLog, createParams>>

(* ------------------------------ importItems ----------------------------- *)
\* const batchSize = CONFIG.BATCH_SIZE
batchSize == CONFIG.BATCH_SIZE

items == exportData.items

\* a pacing delay after every batch
DelayAfterBatchAlways(index, size, len) == TRUE

\* if (i + batchSize < items.length): a pacing delay follows the batch
DelayAfterBatch(index, size, len) == JsLess(JsAdd(index, size), len)

\* the end of an iteration of the batch loop, up to the next await
EndBatch ==
  IF DelayAfterBatch(i, batchSize, Len(items))
    THEN pc' = "pace" /\ UNCHANGED i
    ELSE pc' = "loop" /\ i' = JsAdd(i, batchSize)

\* the counts of batches and delays are kept up to MaxLoop
UpTo(n) == IF n < MaxLoop THEN n + 1 ELSE MaxLoop

\* the test of the batch loop: the next batch is taken, or the results
\* are returned and handler returns the success response; an index that
\* only falls is followed down to -MaxLoop
BatchLoop ==
  /\ pc = "loop"
  /\ IF JsLess(i, Len(items))
       THEN /\ i.v > 0 - MaxLoop
            /\ groups' = UpTo(groups)
            /\ batch' = Slice(items, i, JsAdd(i, batchSize))
            /\ IF batch' = <<>> THEN EndBatch ELSE pc' = "put" /\ UNCHANGED i
            /\ UNCHANGED responses
       ELSE /\ responses' =
                 Append(responses, SuccessResponse(tableName, results, sourceKey))
            /\ pc' = "done"
            /\ UNCHANGED <<groups, batch, i>>
  /\ UNCHANGED <<config, tableStatus, locals, loaded, tableExists, attempt,
                 results, putLog, delays, paceLog, createParams, issued,
                 history>>

\* what writing one item can give: marshall throws, or the send succeeds
\* or is rejected (only an active table takes an item)
PutOutcomes(status) ==
  {"unmarshallable", "rejected"} \cup (IF status = "ACTIVE" THEN {"ok"} ELSE {})

\* results after one item: the try block and its catch
Record(res, item, outcome) ==
  IF outcome = "ok"
    THEN [res EXCEPT !.successCount = @ + 1]
    ELSE [res EXCEPT !.failedCount = @ + 1,
                     !.failedItems = Append(@, [item |-> item, error |-> outcome])]

\* a write whose failure is thrown out of importItems
PutItemThrows ==
  /\ pc = "put"
  /\ \E outcome \in PutOutcomes(tableStatus) :
       /\ issued' = (IF outcome = "unmarshallable" THEN issued
                     ELSE issued \cup {"PutItem"})
       /\ IF outcome = "unmarshallable"
            THEN UNCHANGED <<order, targets>>
            ELSE Observe("put") /\ Target(tableName)
       /\ putLog' = Append(putLog, [item |-> Head(batch), group |-> groups,
                                    outcome |-> outcome])
       /\ IF outcome = "ok"
            THEN /\ results' = Record(results, Head(batch), outcome)
                 /\ batch' = Tail(batch)
                 /\ IF batch' = <<>> THEN EndBatch ELSE pc' = "put" /\ UNCHANGED i
                 /\ UNCHANGED responses
            ELSE /\ Catch("LifecycleQueryFailed")
                 /\ UNCHANGED <<results, batch, i>>
  /\ UNCHANGED <<config, tableStatus, locals, loaded, tableExists, attempt,
                 groups, delays, paceLog, createParams, hit>>

\* one item of the current batch is written
PutItem ==
  /\ pc = "put"
  /\ \E outcome \in PutOutcomes(tableStatus) :
       /\ issued' = (IF outcome = "unmarshallable" THEN issued
                     ELSE issued \cup {"PutItem"})
       /\ IF outcome = "unmarshallable"
            THEN UNCHANGED <<order, targets>>
            ELSE Observe("put") /\ Target(tableName)
       /\ putLog' = Append(putLog, [item |-> Head(batch), group |-> groups,
                                    outcome |-> outcome])
       /\ results' = Record(results, Head(batch), outcome)
  /\ batch' = Tail(batch)
  /\ IF batch' = <<>> THEN EndBatch ELSE pc' = "put" /\ UNCHANGED i
  /\ UNCHANGED <<config, tableStatus, locals, loaded, tableExists, attempt,
                 groups, delays, paceLog, createParams, hit, responses>>

\* the delay between two batches
Pace ==
  /\ pc = "pace"
  /\ delays' = UpTo(delays)
  /\ paceLog' = (IF Len(paceLog) < MaxLoop
                   THEN Append(paceLog, Len(putLog)) ELSE paceLog)
  /\ i' = JsAdd(i, batchSize)
  /\ pc' = "loop"
  /\ UNCHANGED <<config, tableStatus, locals, loaded, tableExists, attempt,
                 batch, results, putLog, groups, createParams, issued,
                 responses, history>>

(* ---------------------------- specification ----------------------------- *)
\* the state of the single invocation
single ==
  <<CONFIG, tableStatus, pc, event, sourceKey, targetTableName, createTable,
    overwriteExisting, exportData, tableName, tableExists, attempt, i, batch,
    results, createParams, issued, putLog, groups, delays, responses, order,
    hit, targets, paceLog>>

Next ==
  \/ \E ev \in Events : Invoke(ev)
  \/ DownloadFromS3
  \/ CheckTableExists
  \/ DeleteTable
  \/ WaitForTableDeletion
  \/ CreateTableFromSchema
  \/ WaitForTableCreation
  \/ BatchLoop
  \/ PutItem
  \/ Pace
  \/ StoreProgress

Spec == Init /\ [][Next]_vars

\* the steps of handler: each awaited call returns and the run goes on
Run ==
  \/ \E ev \in Events : Invoke(ev)
  \/ DownloadFromS3
  \/ CheckTableExists
  \/ DeleteTable
  \/ WaitForTableDeletion
  \/ CreateTableFromSchema
  \/ WaitForTableCreation
  \/ BatchLoop
  \/ PutItem
  \/ Pace

\* the configurations that set the source key and CREATE_TABLE, with a
\* batch size that is not negative
InitLive ==
  /\ Init
  /\ CONFIG.SOURCE_KEY = "export.json"
  /\ CONFIG.CREATE_TABLE
  /\ ~JsLess(CONFIG.BATCH_SIZE, 0)

\* handler is invoked and runs as long as it can take a step
SpecLive == InitLive /\ [][Next]_vars /\ WF_vars(Run)

(* ------------------- the schema translator on its own ------------------- *)
\* the table names a translation is made for
TranslateNames == {"Users", "Users_Restored"}

\* createTableFromSchema is about to build its parameters, for any schema
InitTranslate ==
  /\ CONFIG = LoadConfig([SOURCE_KEY |-> "export.json", TARGET_TABLE_NAME |-> "",
                          CREATE_TABLE |-> "true", OVERWRITE_EXISTING |-> "",
                          BATCH_SIZE |-> <<>>])
  /\ tableStatus = "ABSENT"
  /\ pc = "translate"
  /\ event = NoEvent
  /\ sourceKey = "export.json"
  /\ targetTableName = ""
  /\ createTable = TRUE
  /\ overwriteExisting = FALSE
  /\ \E schema \in Schemas :
       exportData = [ isNull |-> FALSE, exportMetadata |-> TRUE,
                      hasSchema |-> TRUE, hasItems |-> TRUE,
                      tableSchema |-> schema, items |-> <<>> ]
  /\ tableName \in TranslateNames
  /\ tableExists = Some(FALSE)
  /\ attempt = 0
  /\ i = Num(0)
  /\ batch = <<>>
  /\ results = NoResults
  /\ createParams = NoParams
  /\ issued = {"GetObject", "DescribeTable"}
  /\ putLog = <<>>
  /\ groups = 0
  /\ delays = 0
  /\ responses = <<>>
  /\ order = <<"check:absent">>
  /\ hit = NoHit
  /\ targets = {tableName}
  /\ paceLog = <<>>
  /\ runs = [n \in Inst |-> NewRun("Users")]
  /\ tables = [k \in TableNames |-> NoTable]

\* the parameters are built
Translate ==
  /\ pc = "translate"
  /\ createParams' = CreateTableParams(tableName, exportData.tableSchema)
  /\ pc' = "translated"
  /\ UNCHANGED <<config, tableStatus, locals, loaded, tableExists, attempt,
                 importer, issued, responses, history>>

SpecTranslate == InitTranslate /\ [][Translate]_vars

(* ----------------------- two invocations at once ------------------------ *)
\* Steps 2 to 5 of handler for two invocations whose event sets
\* overwriteExisting and createTable; each imports an export of MaxItems
\* records, and the store answers every call.

\* every call of an invocation names the table of the other one
TableOfShared(n) == runs[3 - n].name

\* the table the calls of invocation n name: its tableName
TableOf(n) == runs[n].name

TableSeen(n) == tables[TableOf(n)]

\* invocation n moves on
Step(n, to) == runs' = [runs EXCEPT ![n].pc = to, ![n].attempt = 0]

\* invocation n throws: the catch block returns statusCode 500
Throw(n) ==
  runs' = [runs EXCEPT ![n].pc = "done", ![n].code = 500, ![n].attempt = 0]

SetTable(n, t) == tables' = [tables EXCEPT ![TableOf(n)] = t]

\* Step 2: checkTableExists, then the overwrite branch
TwoCheck(n) ==
  /\ runs[n].pc = "check"
  /\ Step(n, LifecycleStep(TableSeen(n).status # "ABSENT", TRUE, TRUE))
  /\ UNCHANGED <<single, tables>>

\* Step 3: deleteTable
TwoDelete(n) ==
  /\ runs[n].pc = "delete"
  /\ IF TableSeen(n).status \in {"ACTIVE", "CREATING"}
       THEN /\ SetTable(n, [status |-> "DELETING", items |-> {}])
            /\ Step(n, "waitDelete")
       ELSE Throw(n) /\ UNCHANGED tables
  /\ UNCHANGED single

\* a poll of waitForTableDeletion
TwoWaitDelete(n) ==
  /\ runs[n].pc = "waitDelete"
  /\ IF TableSeen(n).status = "ABSENT"
       THEN Step(n, CreateStep(TRUE))
       ELSE IF AttemptsLeft(runs[n].attempt + 1)
         THEN runs' = [runs EXCEPT ![n].attempt = @ + 1]
         ELSE Throw(n)
  /\ UNCHANGED <<single, tables>>

\* Step 4: createTableFromSchema; a table that is there refuses it
TwoCreate(n) ==
  /\ runs[n].pc = "create"
  /\ IF TableSeen(n).status = "ABSENT"
       THEN /\ SetTable(n, [status |-> "CREATING", items |-> {}])
            /\ Step(n, "waitCreate")
       ELSE /\ runs' = [runs EXCEPT ![n].pc = "done", ![n].code = 500,
                                     ![n].hit = "create"]
            /\ UNCHANGED tables
  /\ UNCHANGED single

\* a poll of waitForTableCreation
TwoWaitCreate(n) ==
  /\ runs[n].pc = "waitCreate"
  /\ IF TableIsActive(TableSeen(n).status)
       THEN Step(n, "import")
       ELSE IF AttemptsLeft(runs[n].attempt + 1)
         THEN runs' = [runs EXCEPT ![n].attempt = @ + 1]
         ELSE Throw(n)
  /\ UNCHANGED <<single, tables>>

\* Step 5: one record is written, or its failure is counted
TwoPut(n) ==
  /\ runs[n].pc = "import"
  /\ runs[n].left > 0
  /\ IF TableSeen(n).status = "ACTIVE"
       THEN /\ SetTable(n, [TableSeen(n) EXCEPT
                              !.items = @ \cup {<<n, runs[n].left>>}])
            /\ runs' = [runs EXCEPT ![n].left = @ - 1, ![n].imported = @ + 1]
       ELSE /\ runs' = [runs EXCEPT ![n].left = @ - 1, ![n].hit = "put"]
            /\ UNCHANGED tables
  /\ UNCHANGED single

\* the success response
TwoReturn(n) ==
  /\ runs[n].pc = "import"
  /\ runs[n].left = 0
  /\ runs' = [runs EXCEPT ![n].pc = "done", ![n].code = 200]
  /\ UNCHANGED <<single, tables>>

\* the store completes a creation or a deletion of the table named k
TwoStoreProgress(k) ==
  /\ tables[k].status \in {"CREATING", "DELETING"}
  /\ tables' = [tables EXCEPT ![k].status =
                   IF @ = "CREATING" THEN "ACTIVE" ELSE "ABSENT"]
  /\ UNCHANGED <<single, runs>>

InitTwo ==
  /\ InitHandler
  /\ CONFIG = LoadConfig([SOURCE_KEY |-> "export.json", TARGET_TABLE_NAME |-> "",
                          CREATE_TABLE |-> "true", OVERWRITE_EXISTING |-> "",
                          BATCH_SIZE |-> <<>>])
  /\ tableStatus = "ABSENT"
  /\ runs \in [Inst -> {NewRun(k) : k \in TableNames}]
  /\ tables \in [TableNames -> {[status |-> st, items |-> {}] : st \in TableStates}]

NextTwo ==
  \/ \E n \in Inst : TwoCheck(n)
  \/ \E n \in Inst : TwoDelete(n)
  \/ \E n \in Inst : TwoWaitDelete(n)
  \/ \E n \in Inst : TwoCreate(n)
  \/ \E n \in Inst : TwoWaitCreate(n)
  \/ \E n \in Inst : TwoPut(n)
  \/ \E n \in Inst : TwoReturn(n)
  \/ \E k \in TableNames : TwoStoreProgress(k)

SpecTwo == InitTwo /\ [][NextTwo]_vars

(* ------------------------------- claims --------------------------------- *)
Done == pc = "done"
Returned(code) == Done /\ Len(responses) = 1 /\ responses[1].statusCode = code
FailedWith(error) == Returned(500) /\ responses[1].body.error = error
DestinationCalls == {"DescribeTable", "DeleteTable", "CreateTable", "PutItem"}
MutatingCalls == {"DeleteTable", "CreateTable", "PutItem"}
NumItems == Len(exportData.items)
ImportPhase == pc \in {"loop", "put", "pace"}

\* C1: in every run that returns statusCode 200, importedItems plus
\* failedItems equals the number of records of the artifact.
C1_CountsCoverRecords ==
  Returned(200) =>
    responses[1].body.importedItems + responses[1].body.failedItems = NumItems

\* C2: a loaded artifact that lacks any of its three sections ends the run
\* with the malformed-export error and no call to the destination store.
C2_MalformedAbortsBeforeStore ==
  (~exportData.isNull
     /\ ~(exportData.exportMetadata /\ exportData.hasSchema /\ exportData.hasItems))
  => (FailedWith("MalformedExport") /\ issued \cap DestinationCalls = {})

C2_Witness ==
  /\ ~exportData.isNull
  /\ exportData.exportMetadata /\ exportData.hasSchema /\ ~exportData.hasItems
  /\ FailedWith("MalformedExport")
  /\ issued = {"GetObject"}

\* C3: when the existence check finds the table and overwriteExisting is
\* false, the run fails with TableExistsNoOverwrite whatever createTable is,
\* and no delete, create or put call is sent.
C3_ExistsNoOverwrite ==
  (tableExists = Some(TRUE) /\ ~overwriteExisting)
  => (FailedWith("TableExistsNoOverwrite") /\ issued \cap MutatingCalls = {})

C3_Witness ==
  /\ tableExists = Some(TRUE) /\ ~overwriteExisting /\ createTable
  /\ FailedWith("TableExistsNoOverwrite")
  /\ "DescribeTable" \in issued

\* C4: when the existence check finds no table and createTable is false,
\* the run fails with TableMissingNoCreate and no create or put call is sent.
C4_MissingNoCreate ==
  (tableExists = Some(FALSE) /\ ~createTable)
  => (FailedWith("TableMissingNoCreate")
        /\ issued \cap {"CreateTable", "PutItem"} = {})

C4_Witness ==
  /\ tableExists = Some(FALSE) /\ ~createTable
  /\ FailedWith("TableMissingNoCreate")
  /\ "DescribeTable" \in issued

\* C5: a run that ends with TableExistsNoOverwrite or TableMissingNoCreate
\* has sent no delete, create or put call.
C5_PolicyErrorsBeforeMutation ==
  (Returned(500)
     /\ responses[1].body.error \in {"TableExistsNoOverwrite", "TableMissingNoCreate"})
  => issued \cap MutatingCalls = {}

\* every record of the artifact has a write attempt that failed
EveryRecordFailed ==
  \A k \in 1..NumItems :
    \E n \in 1..Len(putLog) : putLog[n].item = k /\ putLog[n].outcome # "ok"

\* C6: a failed write never makes the run fail: a run in the batch-import
\* phase stays in it or returns statusCode 200, and when every record
\* failed the response reports 0 imported and all records failed.
C6_RecordFailuresNotFatal ==
  [][ ImportPhase =>
        \/ ImportPhase'
        \/ /\ Returned(200)'
           /\ EveryRecordFailed' =>
                /\ responses'[1].body.importedItems = 0
                /\ responses'[1].body.failedItems = NumItems' ]_vars

C6_Witness ==
  /\ Returned(200)
  /\ NumItems = MaxItems
  /\ EveryRecordFailed
  /\ responses[1].body.importedItems = 0
  /\ responses[1].body.failedItems = MaxItems

\* the errors that end a run
FatalErrors ==
  { "MissingSourceKey", "DownloadFailed", "TypeError", "MalformedExport",
    "TableExistsNoOverwrite", "TableMissingNoCreate", "LifecycleQueryFailed",
    "DeleteFailed", "DeleteTimeout", "CreateFailed", "CreateTimeout" }

\* C7: handler returns one response, at the moment it ends and never
\* otherwise; it is the 200 response with the counts exactly when the batch
\* loop ran to its end, and otherwise the 500 response of a fatal error,
\* which carries a message and the error and nothing else.
C7_OneResponse ==
  [][ /\ (pc' # "done" => responses' = <<>>)
      /\ (pc = "done" => responses' = responses)
      /\ (pc # "done" /\ pc' = "done") =>
            /\ Len(responses') = 1
            /\ responses'[1].statusCode \in {200, 500}
            /\ responses'[1].statusCode = 200 <=> pc = "loop"
            /\ responses'[1].statusCode = 200 =>
                 /\ {"importedItems", "failedItems"} \subseteq DOMAIN responses'[1].body
                 /\ responses'[1].body.importedItems = results.successCount
                 /\ responses'[1].body.failedItems = results.failedCount
            /\ responses'[1].statusCode = 500 =>
                 /\ DOMAIN responses'[1].body = {"message", "error"}
                 /\ responses'[1].body.error \in FatalErrors ]_vars

C7_Witness ==
  /\ FailedWith("CreateTimeout")
  /\ attempt = MaxAttempts
  /\ DOMAIN responses[1].body = {"message", "error"}

\* C8: with no sourceKey in the event and none in the environment the run
\* fails with MissingSourceKey and no external call at all has been sent.
C8_MissingSourceKey ==
  (pc # "idle" /\ event.sourceKey = "" /\ CONFIG.SOURCE_KEY = "")
  => (FailedWith("MissingSourceKey") /\ issued = {})

C8_Witness ==
  /\ pc # "idle" /\ event.sourceKey = "" /\ CONFIG.SOURCE_KEY = ""
  /\ FailedWith("MissingSourceKey")

\* ceil(n / b) for a positive b
CeilDiv(n, b) == (n + b - 1) \div b

\* C9: with a positive batch size b the writes are attempted in source
\* order, record k in group ceil(k / b), so that the groups are consecutive
\* runs of b records (the last one possibly shorter) written one group
\* after the other; a completed run has written all N records in
\* ceil(N / b) groups.
C9_ConsecutiveGroups ==
  (~batchSize.nan /\ batchSize.v > 0) =>
    /\ \A k \in 1..Len(putLog) :
         /\ putLog[k].item = k
         /\ putLog[k].group = CeilDiv(k, batchSize.v)
    /\ Len(putLog) <= NumItems
    /\ Returned(200) =>
         /\ Len(putLog) = NumItems
         /\ groups = CeilDiv(NumItems, batchSize.v)

C9_Witness ==
  /\ batchSize = Num(2)
  /\ NumItems = 3
  /\ Returned(200)
  /\ groups = 2
  /\ putLog[2].group = 1 /\ putLog[3].group = 2

\* C10: for a schema whose billing mode is not PROVISIONED the creation
\* parameters keep every index of the schema, none of them with a
\* ProvisionedThroughput, and carry no ProvisionedThroughput of the table.
C10_NoCapacityOnDemand ==
  (pc = "translated" /\ exportData.tableSchema.billingMode # "PROVISIONED") =>
    /\ Len(createParams.GlobalSecondaryIndexes)
         = Len(exportData.tableSchema.globalSecondaryIndexes)
    /\ Len(createParams.LocalSecondaryIndexes)
         = Len(exportData.tableSchema.localSecondaryIndexes)
    /\ \A k \in DOMAIN createParams.GlobalSecondaryIndexes :
         ~createParams.GlobalSecondaryIndexes[k].ProvisionedThroughput.def
    /\ \A k \in DOMAIN createParams.LocalSecondaryIndexes :
         ~createParams.LocalSecondaryIndexes[k].ProvisionedThroughput.def
    /\ ~createParams.ProvisionedThroughput.def

C10_Witness ==
  /\ pc = "translated"
  /\ exportData.tableSchema.billingMode = ""
  /\ Len(exportData.tableSchema.globalSecondaryIndexes) = 1
  /\ exportData.tableSchema.globalSecondaryIndexes[1].ProvisionedThroughput
       = Throughput(3, 4)
  /\ Len(exportData.tableSchema.localSecondaryIndexes) = 1
  /\ Len(createParams.GlobalSecondaryIndexes) = 1
  /\ createParams.BillingMode = "PAY_PER_REQUEST"
  /\ ~createParams.GlobalSecondaryIndexes[1].ProvisionedThroughput.def


(* ------------------------ claims on the lifecycle ----------------------- *)
\* first place of an observation in order, 0 when it is not there
Pos(o) ==
  IF \E k \in 1..Len(order) : order[k] = o
    THEN CHOOSE k \in 1..Len(order) :
           order[k] = o /\ \A j \in 1..(k - 1) : order[j] # o
    ELSE 0
Noted(o) == Pos(o) > 0
Before(a, b) == Noted(a) /\ Noted(b) /\ Pos(a) < Pos(b)
Times(o) == Cardinality({k \in 1..Len(order) : order[k] = o})

\* the orders of calls of a run that replaces an existing table, up to
\* its writes: the polls that saw the table still there or not yet active,
\* and the writes, may be missing
ReplaceOrders ==
  { <<"check:exists", "delete">> \o d \o <<"dpoll:absent", "create">> \o c
      \o <<"cpoll:active">> \o w :
      d \in {<<>>, <<"dpoll:exists">>},
      c \in {<<>>, <<"cpoll:pending">>},
      w \in {<<>>, <<"put">>} }

\* C11: a run that replaces an existing table calls the store in the order
\* check, delete, polls until absent, create, polls until ACTIVE, writes;
\* in every run create follows an observation of the table as absent, and
\* a write follows a poll that returned ACTIVE.
C11_CallOrder ==
  /\ (tableExists = Some(TRUE) /\ overwriteExisting /\ createTable
        /\ (ImportPhase \/ Returned(200)))
     => order \in ReplaceOrders
  /\ Noted("create") =>
       (Before("check:absent", "create") \/ Before("dpoll:absent", "create"))
  /\ Noted("put") => Before("cpoll:active", "put")
  /\ putLog # <<>> => Noted("cpoll:active")

C11_Witness ==
  /\ Returned(200)
  /\ tableExists = Some(TRUE) /\ overwriteExisting /\ createTable
  /\ order = <<"check:exists", "delete", "dpoll:exists", "dpoll:absent",
               "create", "cpoll:pending", "cpoll:active", "put">>


\* C12: delete is never sent while the table is being created or deleted,
\* and create is only sent while the table is absent.
C12_NoCallMidTransition ==
  /\ hit.deleteOn \notin {"CREATING", "DELETING"}
  /\ hit.createOn \in {"", "ABSENT"}


Last(q) == q[Len(q)]

\* C13: waitForTableDeletion makes at most maxAttempts polls; handler goes
\* on to create only after a poll saw the table absent; when every poll saw
\* the table the run ends with DeleteTimeout after maxAttempts polls, with
\* statusCode 500 and no create or put call.
C13_DeleteWait ==
  /\ pc = "waitDelete" => attempt < MaxAttempts
  /\ (Noted("delete") /\ (Noted("create") \/ FailedWith("TableMissingNoCreate")))
       => Before("delete", "dpoll:absent")
  /\ (Noted("delete") /\ Noted("create")) => Before("dpoll:absent", "create")
  /\ (Done /\ Noted("dpoll:exists") /\ Last(order) = "dpoll:exists")
       => (FailedWith("DeleteTimeout") /\ attempt = MaxAttempts)
  /\ FailedWith("DeleteTimeout") =>
       /\ order = <<"check:exists", "delete", "dpoll:exists">>
       /\ attempt = MaxAttempts
       /\ issued \cap {"CreateTable", "PutItem"} = {}

C13_Witness ==
  /\ FailedWith("DeleteTimeout")
  /\ attempt = MaxAttempts
  /\ tableStatus = "DELETING"

\* C14: waitForTableCreation makes at most maxAttempts polls; a poll that
\* fails or returns another status than ACTIVE is followed by the next
\* poll; the wait ends only on a poll that returned ACTIVE, or with
\* CreateTimeout after maxAttempts polls, and then with statusCode 500 and
\* no write.
C14_CreateWait ==
  /\ [](pc = "waitCreate" => attempt < MaxAttempts)
  /\ []((ImportPhase \/ Returned(200)) => Before("create", "cpoll:active"))
  /\ [](FailedWith("CreateTimeout") =>
          /\ attempt = MaxAttempts
          /\ ~Noted("cpoll:active")
          /\ putLog = <<>> /\ "PutItem" \notin issued)
  /\ [][ (pc = "waitCreate" /\ pc' # "waitCreate") =>
           \/ pc' = "loop" /\ Last(order') = "cpoll:active"
           \/ FailedWith("CreateTimeout")' /\ attempt = MaxAttempts - 1 ]_vars

C14_Witness ==
  /\ Returned(200)
  /\ hit.pollFailed
  /\ Before("cpoll:pending", "cpoll:active")
  /\ results.successCount > 0

\* C15: an existence query answers false to "not found" and true to a
\* description, without an error; any other failure of the first check or
\* of a deletion poll ends the run with statusCode 500, and no create or
\* put call is sent.
C15_ExistenceQuery ==
  /\ Noted("check:absent") =>
       (tableExists = Some(FALSE) /\ ~FailedWith("LifecycleQueryFailed"))
  /\ Noted("check:exists") => tableExists = Some(TRUE)
  /\ (Noted("check:error") \/ Noted("dpoll:error")) =>
       /\ FailedWith("LifecycleQueryFailed")
       /\ issued \cap {"CreateTable", "PutItem"} = {}
  /\ Noted("dpoll:absent") => ~FailedWith("LifecycleQueryFailed")

C15_Witness ==
  /\ Noted("dpoll:error")
  /\ Before("dpoll:exists", "dpoll:error")
  /\ FailedWith("LifecycleQueryFailed")
  /\ "DeleteTable" \in issued


\* the records of the write attempts, in the order of the attempts
Attempted == [k \in 1..Len(putLog) |-> putLog[k].item]

\* the attempts that failed, as the failure list holds them
FailedAttempts ==
  LET failed == SelectSeq(putLog, LAMBDA p : p.outcome # "ok")
  IN [k \in 1..Len(failed) |-> [item |-> failed[k].item, error |-> failed[k].outcome]]

\* C16: when importItems has returned, every record of the source was
\* attempted exactly once, in source order, and the failure list holds
\* exactly the failed attempts with their reasons, failedCount of them.
C16_ExactlyOneAttempt ==
  Returned(200) =>
    /\ Attempted = items
    /\ results.failedItems = FailedAttempts
    /\ Len(results.failedItems) = results.failedCount

\* C17: a run of importItems that made G batches took max(G - 1, 0) pacing
\* delays; the k-th delay comes after every write of batches 1..k and
\* before every write of the later batches, so none falls inside a batch.
C17_DelaysBetweenGroups ==
  /\ Returned(200) => delays = (IF groups > 0 THEN groups - 1 ELSE 0)
  /\ pc = "pace" => batch = <<>>
  /\ delays <= groups
  /\ \A k \in 1..Len(paceLog) : \A j \in 1..Len(putLog) :
       (j <= paceLog[k]) <=> (putLog[j].group <= k)

C17_Witness ==
  /\ Returned(200)
  /\ groups = 2 /\ delays = 1
  /\ paceLog = <<2>> /\ Len(putLog) = 3


\* the name handler chooses for the destination table
ChosenName == OrElse(targetTableName, exportData.tableSchema.tableName)

\* C20: a run that wrote a record or returned statusCode 200 sent exactly
\* one create call before any write, with createTable true, and after a
\* deletion when the table was found; every call of the run to the
\* destination store names the one table chosen from targetTableName or
\* the schema.
C20_WritesOnlyIntoOwnTable ==
  /\ ("PutItem" \in issued \/ Returned(200)) =>
       /\ Times("create") = 1
       /\ createTable
       /\ hit.createOn = "ABSENT"
       /\ Noted("put") => Before("create", "put")
       /\ Noted("check:exists") =>
            (Before("delete", "dpoll:absent") /\ Before("dpoll:absent", "create"))
  /\ targets # {} => (targets = {ChosenName} /\ tableName = ChosenName)
  /\ "CreateTable" \in issued => createParams.TableName = ChosenName

C20_Witness ==
  /\ Returned(200)
  /\ event.targetTableName = "Users_Restored"
  /\ targets = {"Users_Restored"}
  /\ Before("check:exists", "delete")
  /\ results.successCount = NumItems /\ NumItems > 0


\* C19: every invocation of handler returns a response, whatever the
\* batch size is, as long as every awaited call returns.
C19_EveryRunReturns == (pc # "idle") ~> Done


(* ------------------- claims on two invocations at once ------------------ *)
Other(n) == 3 - n
DifferentNames == runs[1].name # runs[2].name
RecordsOf(n) == {r \in tables[runs[n].name].items : r[1] = n}

\* C18: two invocations that name different tables do not touch each
\* other: every step leaves one invocation and the table it names as they
\* were, no create or write call of either meets a table that is missing
\* or in transition, and the records an invocation reported as imported
\* are in its table when it has returned. Two invocations that name the
\* same table can reach a state where this fails.
C18_DifferentNamesIndependent ==
  /\ [](DifferentNames =>
          \A n \in Inst :
            /\ runs[n].hit = ""
            /\ runs[n].code = 200 =>
                 (runs[n].imported = MaxItems /\
                  Cardinality(RecordsOf(n)) = runs[n].imported))
  /\ [][ DifferentNames =>
           \E n \in Inst :
             /\ runs'[Other(n)] = runs[Other(n)]
             /\ tables'[runs[Other(n)].name] = tables[runs[Other(n)].name] ]_vars

\* both invocations name the same table and have returned 200; one of them
\* had a write refused by a table the other had deleted, and the records
\* it did report as imported are gone
C18_Witness ==
  /\ ~DifferentNames
  /\ \A n \in Inst : runs[n].code = 200
  /\ \E n \in Inst :
       /\ runs[n].hit = "put"
       /\ runs[n].imported > 0
       /\ RecordsOf(n) = {}

====
